---- MODULE Spec2Model ----
(***************************************************************************)
(* A model of the /predict pipeline of the CpG predictor:                  *)
(*   decode_request -> validate_request_payload -> preprocess_data ->      *)
(*   predict_cpg per task -> encode_response,                              *)
(* with the exception paths of predict() and handle_api_error().           *)
(*                                                                         *)
(* Python values are modelled as records of one shape, so that any two of  *)
(* them can be compared:                                                   *)
(*   a JSON value   [t, s, n, l]  t = "str" | "int" | "float" | "null" |   *)
(*                                    "list"; s the text of a str; n the   *)
(*                                    number of an int/float; l the        *)
(*                                    elements of a list                   *)
(*   a DNA string   a sequence of one-character strings                    *)
(*   a dict         a sequence of [k, v] entries with distinct keys, in    *)
(*                  insertion order (the order Python iterates in); a key  *)
(*                  is a text, and a key that a MessagePack body holds as  *)
(*                  bin, which unpackb gives as bytes, is written as str() *)
(*                  writes it: b'...'                                      *)
(*   a message      [kind, id, keys, chars, a, b]: the f-string that built *)
(*                  it (kind) and the values interpolated into it          *)
(***************************************************************************)
EXTENDS Integers, Sequences, FiniteSets, TLC

\* ------------------------------------------------------------------ bounds

\* Longest DNA string submitted as a sequence in the range-focused inputs.
MaxSeqLen == 2
\* Largest index used in a generated prediction range.
MaxRangeIdx == 2
\* Most prediction tasks in a generated request.
MaxTasks == 2

\* The longest sequence of the requests with longer sequences.
MaxLongLen == 27

\* The requests handled at the same time.
MaxRequests == 2

\* ------------------------------------------------------------ Python values

Elem(t, s, n) == [t |-> t, s |-> s, n |-> n]
IntE(n) == Elem("int", "", n)
FloatE(n) == Elem("float", "", n)
StrE(s) == Elem("str", s, 0)

Val(t, s, n, l) == [t |-> t, s |-> s, n |-> n, l |-> l]
StrV(s) == Val("str", s, 0, <<>>)
IntV(n) == Val("int", "", n, <<>>)
NullV == Val("null", "", 0, <<>>)
ListV(l) == Val("list", "", 0, l)

\* A flank value (upstream_seq / downstream_seq): the DNA string chars (t =
\* "str"), the list of the one DNA string chars, [] when chars is empty (t =
\* "list"), the int Len(chars) (t = "int"), or null.
Flank(t, chars) == [t |-> t, chars |-> chars]

\* Python truthiness of a JSON value ("not value" is its negation).
Truthy(v) ==
    CASE v.t = "list" -> v.l # <<>>
      [] v.t = "str" -> v.s # ""
      [] v.t = "int" -> v.n # 0
      [] v.t = "float" -> v.n # 0
      [] OTHER -> FALSE

\* The elements of a list from index i on, as str() of the list writes them:
\* the repr() of each, with ", " between them.
RECURSIVE PyReprFrom(_, _)
PyReprFrom(l, i) ==
    IF i > Len(l) THEN ""
    ELSE (CASE l[i].t = "str" -> "'" \o l[i].s \o "'"
            [] l[i].t = "float" -> ToString(l[i].n) \o ".0"
            [] OTHER -> ToString(l[i].n))
         \o (IF i < Len(l) THEN ", " ELSE "") \o PyReprFrom(l, i + 1)

\* str(v) as an f-string interpolates it.
PyStr(v) ==
    CASE v.t = "str" -> v.s
      [] v.t = "null" -> "None"
      [] v.t = "int" -> ToString(v.n)
      [] v.t = "float" -> ToString(v.n) \o ".0"
      [] OTHER -> "[" \o PyReprFrom(v.l, 1) \o "]"

\* ------------------------------------------------------------------- dicts

DictKeys(d) == {d[i].k : i \in DOMAIN d}
DictHas(d, k) == \E i \in DOMAIN d : d[i].k = k
DictGet(d, k, default) ==
    IF DictHas(d, k) THEN d[CHOOSE i \in DOMAIN d : d[i].k = k].v ELSE default
\* d[k] = v on an existing key keeps the key's position.
DictSet(d, k, v) == [i \in DOMAIN d |-> IF d[i].k = k THEN [k |-> k, v |-> v] ELSE d[i]]

\* ---------------------------------------------------------------- messages

Msg(kind, id, keys, chars, a, b) ==
    [kind |-> kind, id |-> id, keys |-> keys, chars |-> chars, a |-> a, b |-> b]
M0(kind) == Msg(kind, "", <<>>, {}, 0, 0)
MId(kind, id) == Msg(kind, id, <<>>, {}, 0, 0)

\* Python's order on the key names the code sorts: sorted() of a set of them is
\* the subsequence of this list.
KeyOrder == <<"cell_type", "name", "prediction_tasks", "readout", "sequences", "species", "type">>
Sorted(S) == SelectSeq(KeyOrder, LAMBDA k : k \in S)

\* ----------------------------------------------------- error_checking_functions

TopMandatory == {"readout", "prediction_tasks", "sequences"}
TaskMandatory == {"name", "type", "cell_type", "species"}

\* check_mandatory_keys with sorted() forgotten: the missing keys come in the
\* order of the mandatory_keys list.
check_mandatory_keys_unsorted(evaluator_keys) ==
    LET missing == SelectSeq(<<"readout", "prediction_tasks", "sequences">>,
                             LAMBDA k : k \notin evaluator_keys)
    IN  IF missing # <<>> THEN <<Msg("missing_top_keys", "", missing, {}, 0, 0)>> ELSE <<>>

\* check_mandatory_keys: the messages it appends.
check_mandatory_keys(evaluator_keys) ==
    LET missing == Sorted(TopMandatory \ evaluator_keys)
    IN  IF missing # <<>> THEN <<Msg("missing_top_keys", "", missing, {}, 0, 0)>> ELSE <<>>

\* TaskMissingMsg with the name never looked up: every task goes by its index.
TaskMissingMsgByIndex(task, index) ==
    LET missing == Sorted(TaskMandatory \ task.keys)
    IN  IF missing = <<>> THEN <<>>
        ELSE <<Msg("missing_task_keys", "at index", missing, {}, index, 0)>>

\* One task of check_prediction_task_mandatory_keys; index is 0-based.
TaskMissingMsg(task, index) ==
    LET missing == Sorted(TaskMandatory \ task.keys)
    IN  IF missing = <<>> THEN <<>>
        ELSE IF "name" \in task.keys
             THEN <<Msg("missing_task_keys", PyStr(task.name), missing, {}, -1, 0)>>
             ELSE <<Msg("missing_task_keys", "at index", missing, {}, index, 0)>>

RECURSIVE TaskMissingFrom(_, _)
TaskMissingFrom(tasks, i) ==
    IF i > Len(tasks) THEN <<>>
    ELSE TaskMissingMsg(tasks[i], i - 1) \o TaskMissingFrom(tasks, i + 1)

check_prediction_task_mandatory_keys(prediction_tasks) == TaskMissingFrom(prediction_tasks, 1)

ReadoutOptions == {"point", "track", "interaction_matrix"}

check_key_values_readout(readout_value) ==
    (IF ~(readout_value.t = "str" /\ readout_value.s \in ReadoutOptions)
        THEN <<M0("readout_not_recognized")>> ELSE <<>>)
    \o (IF readout_value.t # "str" THEN <<M0("readout_not_string")>> ELSE <<>>)
    \o (IF readout_value.t = "list" THEN <<M0("readout_list")>> ELSE <<>>)

\* The concatenation of a sequence of message lists: what a loop that appends
\* the messages of each pass leaves in the accumulator.
RECURSIVE Concat(_)
Concat(lists) == IF lists = <<>> THEN <<>> ELSE Head(lists) \o Concat(Tail(lists))

TaskNameMsgs(task) ==
    (IF task.name.t = "list" THEN <<M0("name_list")>> ELSE <<>>)
    \o (IF task.name.t # "str" THEN <<M0("name_not_string")>> ELSE <<>>)

check_prediction_task_name(prediction_tasks) == 
    Concat([i \in DOMAIN prediction_tasks |-> TaskNameMsgs(prediction_tasks[i])])

\* The part of a type string up to and including its first "_" when that part
\* is one the code tests with startswith, for the type strings of the model.
TypePrefix(s) ==
    CASE s = "binding_CTCF" -> "binding_"
      [] s = "expression_RNA" -> "expression_"
      [] s = "conformation_HiC" -> "conformation_"
      [] OTHER -> ""

TaskTypeOptions == {"accessibility", "expression"}

TaskTypeMsgs(task) ==
    IF task.type.t = "list" THEN <<M0("type_list")>>
    ELSE IF task.type.t = "str"
         THEN IF task.type.s \in TaskTypeOptions
                 \/ TypePrefix(task.type.s) \in {"binding_", "expression_", "conformation_"}
              THEN <<>>
              ELSE <<MId("type_not_recognized", task.type.s)>>
         ELSE <<M0("type_not_string")>>

check_prediction_task_type(prediction_tasks) == 
    Concat([i \in DOMAIN prediction_tasks |-> TaskTypeMsgs(prediction_tasks[i])])

TaskCellTypeMsgs(task) ==
    IF task.cell_type.t = "list" THEN <<M0("cell_type_list")>>
    ELSE IF task.cell_type.t = "str" THEN <<>> ELSE <<M0("cell_type_not_string")>>

check_prediction_task_cell_type(prediction_tasks) == 
    Concat([i \in DOMAIN prediction_tasks |-> TaskCellTypeMsgs(prediction_tasks[i])])

TaskSpeciesMsgs(task) ==
    IF task.species.t = "list" THEN <<M0("species_list")>>
    ELSE IF task.species.t = "str" THEN <<>> ELSE <<M0("species_not_string")>>

check_prediction_task_species(prediction_tasks) == 
    Concat([i \in DOMAIN prediction_tasks |-> TaskSpeciesMsgs(prediction_tasks[i])])

ScaleOptions == {"linear", "log"}

TaskScaleMsgs(task) ==
    IF "scale" \in task.keys
    THEN IF task.scale.t = "list" THEN <<M0("scale_list")>>
         ELSE (IF ~(task.scale.t = "str" /\ task.scale.s \in ScaleOptions)
                  THEN <<M0("scale_not_recognized")>> ELSE <<>>)
              \o (IF task.scale.t # "str" THEN <<M0("scale_not_string")>> ELSE <<>>)
    ELSE <<>>

check_prediction_task_scale(prediction_tasks) == 
    Concat([i \in DOMAIN prediction_tasks |-> TaskScaleMsgs(prediction_tasks[i])])

check_seq_ids(prediction_ranges, sequences) ==
    IF DictKeys(prediction_ranges) = DictKeys(sequences) THEN <<>>
    ELSE <<M0("seq_ids_mismatch")>>

check_key_values_upstream_flank(upstream_seq) ==
    IF upstream_seq.t = "list" THEN <<M0("upstream_list")>>
    ELSE IF upstream_seq.t = "str" THEN <<>> ELSE <<M0("upstream_not_string")>>

check_key_values_downstream_flank(downstream_seq) ==
    IF downstream_seq.t = "list" THEN <<M0("downstream_list")>>
    ELSE IF downstream_seq.t = "str" THEN <<>> ELSE <<M0("downstream_not_string")>>

\* ------------------------------------------------------ check_prediction_ranges

\* What a check that can raise leaves behind: the messages appended so far and
\* the exception that ended it ("none" when it returned).
Outcome(msgs, exc) == [msgs |-> msgs, exc |-> exc]

IsNumber(e) == e.t \in {"int", "float"}

\* len(value); only a list or a str has one.
PyLen(value) == IF value.t = "list" THEN Len(value.l) ELSE Len(value.s)

\* value[0] and value[1] of a list; the characters of a str are not numbers.
Item(value, i) == IF value.t = "list" THEN value.l[i] ELSE StrE("char")

AllInt(value) == value.t = "list" /\ \A i \in DOMAIN value.l : value.l[i].t = "int"

\* RangeBoundsMsgs letting an index equal to the length through.
RangeBoundsMsgsPastEnd(key, start, end, seq_len) ==
    IF start > seq_len \/ end > seq_len
    THEN IF seq_len = 0 THEN <<MId("range_empty_seq", key)>>
         ELSE <<Msg("range_oob", key, <<>>, {}, seq_len, seq_len - 1)>>
    ELSE <<>>

\* The out-of-bounds test of one range, against the sequence as submitted.
RangeBoundsMsgs(key, start, end, seq_len) ==
    IF start >= seq_len \/ end >= seq_len
    THEN IF seq_len = 0 THEN <<MId("range_empty_seq", key)>>
         ELSE <<Msg("range_oob", key, <<>>, {}, seq_len, seq_len - 1)>>
    ELSE <<>>

\* str() of an element of a list, as the f-strings of lines 245 and 248 write
\* start and end.
ElemStr(e) ==
    CASE e.t = "str" -> e.s
      [] e.t = "float" -> ToString(e.n) \o ".0"
      [] OTHER -> ToString(e.n)

\* The body of the loop of check_prediction_ranges for one (key, value); the
\* messages of lines 245 and 248 hold the texts of start and end in keys.
RangeEntry(key, value, sequences) ==
    LET notList == IF value.t # "list" THEN <<MId("range_not_list", key)>> ELSE <<>>
    IN  IF ~Truthy(value) THEN Outcome(notList, "none")
        ELSE IF value.t \notin {"list", "str"} THEN Outcome(notList, "TypeError")
        ELSE
          LET m2 == notList
                    \o (IF PyLen(value) # 2 THEN <<MId("range_not_2", key)>> ELSE <<>>)
                    \o (IF ~AllInt(value) THEN <<MId("range_not_int", key)>> ELSE <<>>)
          IN  IF PyLen(value) < 2 THEN Outcome(m2, "IndexError")
              ELSE
                LET start == Item(value, 1)
                    end == Item(value, 2)
                IN  IF ~IsNumber(start) THEN Outcome(m2, "TypeError")
                    ELSE IF start.n >= 0 /\ ~IsNumber(end) THEN Outcome(m2, "TypeError")
                    ELSE
                      LET m4 == m2 \o (IF start.n < 0 \/ end.n < 0
                                       THEN <<Msg("range_negative", key,
                                                   <<ElemStr(start), ElemStr(end)>>, {}, 0, 0)>>
                                       ELSE <<>>)
                      IN  IF ~IsNumber(end) THEN Outcome(m4, "TypeError")
                          ELSE
                            Outcome(
                              m4 \o (IF start.n > end.n
                                     THEN <<Msg("range_start_gt_end", key,
                                                 <<ElemStr(start), ElemStr(end)>>, {}, 0, 0)>>
                                     ELSE <<>>)
                                 \o RangeBoundsMsgs(key, start.n, end.n,
                                                    Len(DictGet(sequences, key, <<>>))),
                              "none")

\* The loop over prediction_ranges.items(): it ends at the first entry that raises.
RECURSIVE RangesFrom(_, _, _)
RangesFrom(prediction_ranges, sequences, i) ==
    IF i > Len(prediction_ranges) THEN Outcome(<<>>, "none")
    ELSE LET one == RangeEntry(prediction_ranges[i].k, prediction_ranges[i].v, sequences)
         IN  IF one.exc # "none" THEN one
             ELSE LET rest == RangesFrom(prediction_ranges, sequences, i + 1)
                  IN  Outcome(one.msgs \o rest.msgs, rest.exc)

check_prediction_ranges(prediction_ranges, sequences) == RangesFrom(prediction_ranges, sequences, 1)

\* ------------------------------------------------- check_seqs_specifications

ValidBases == {"A", "T", "C", "G", "N"}

\* str.upper() on one character of the model's alphabet.
Upper(c) ==
    CASE c = "a" -> "A" [] c = "c" -> "C" [] c = "g" -> "G" [] c = "t" -> "T"
      [] c = "n" -> "N" [] c = "x" -> "X" [] OTHER -> c

UpperSeq(seq) == [i \in DOMAIN seq |-> Upper(seq[i])]

SeqSpecMsgs(seq_id, seq) ==
    LET invalid_chars == {Upper(seq[i]) : i \in DOMAIN seq} \ ValidBases
    IN  (IF seq = <<>> THEN <<MId("seq_empty", seq_id)>> ELSE <<>>)
        \o (IF invalid_chars # {}
            THEN <<Msg("seq_invalid_chars", seq_id, <<>>, invalid_chars, 0, 0)>> ELSE <<>>)

RECURSIVE SeqSpecsFrom(_, _)
SeqSpecsFrom(sequences, i) ==
    IF i > Len(sequences) THEN <<>>
    ELSE SeqSpecMsgs(sequences[i].k, sequences[i].v) \o SeqSpecsFrom(sequences, i + 1)

\* check_seqs_specifications leaving at the first offending sequence.
check_seqs_first_only(sequences) ==
    LET all == SeqSpecsFrom(sequences, 1)
    IN  IF all = <<>> THEN <<>> ELSE <<all[1]>>

check_seqs_specifications(sequences) == SeqSpecsFrom(sequences, 1)

\* ------------------------------------------------------------ schema_validation

\* An exception in flight: its class, and its message (a list of messages, or a
\* single string held as the one item). "none": nothing was raised.
Raise(type, is_list, items) == [type |-> type, is_list |-> is_list, items |-> items]
NoRaise == Raise("none", FALSE, <<>>)

\* BadRequestError(flagged_errors) when the accumulator holds a message.
RaiseIfAny(msgs) == IF msgs # <<>> THEN Raise("BadRequestError", TRUE, msgs) ELSE NoRaise

\* The accumulator after the checks of lines 26-31 (readout and the task fields).
FieldChecks(payload) ==
    check_key_values_readout(payload.readout)
    \o check_prediction_task_name(payload.prediction_tasks)
    \o check_prediction_task_type(payload.prediction_tasks)
    \o check_prediction_task_cell_type(payload.prediction_tasks)
    \o check_prediction_task_species(payload.prediction_tasks)
    \o check_prediction_task_scale(payload.prediction_tasks)

\* Lines 33-35: the two range checks, when prediction_ranges is given.
RangeChecks(payload) ==
    IF "prediction_ranges" \in payload.keys
    THEN LET r == check_prediction_ranges(payload.prediction_ranges, payload.sequences)
         IN  Outcome(check_seq_ids(payload.prediction_ranges, payload.sequences) \o r.msgs, r.exc)
    ELSE Outcome(<<>>, "none")

\* Lines 37-40: the flank checks, for the flanks that are given.
FlankChecks(payload) ==
    (IF "upstream_seq" \in payload.keys
        THEN check_key_values_upstream_flank(payload.upstream_seq) ELSE <<>>)
    \o (IF "downstream_seq" \in payload.keys
        THEN check_key_values_downstream_flank(payload.downstream_seq) ELSE <<>>)

\* Lines 25-44: every remaining check, then one raise for all the messages; an
\* exception of a check leaves the function at once.
RemainingChecks(payload) ==
    LET r == RangeChecks(payload)
    IN  IF r.exc # "none" THEN Raise(r.exc, FALSE, <<M0(r.exc)>>)
        ELSE RaiseIfAny(FieldChecks(payload) \o r.msgs \o FlankChecks(payload))

\* The messages the accumulator of line 10 holds when validate_request_payload
\* leaves, by return or by any exception.
Accumulated(payload) ==
    LET top == check_mandatory_keys(payload.keys)
    IN  IF top # <<>> THEN top
        ELSE LET task == check_prediction_task_mandatory_keys(payload.prediction_tasks)
                 r == RangeChecks(payload)
             IN  IF task # <<>> THEN task
                 ELSE IF r.exc # "none" THEN FieldChecks(payload) \o r.msgs
                 ELSE FieldChecks(payload) \o r.msgs \o FlankChecks(payload)

\* validate_request_payload: what it raises (NoRaise when it returns).
validate_request_payload(payload) ==
    LET top == check_mandatory_keys(payload.keys)
    IN  IF top # <<>> THEN Raise("BadRequestError", TRUE, top)
        ELSE LET task == check_prediction_task_mandatory_keys(payload.prediction_tasks)
             IN  IF task # <<>> THEN Raise("BadRequestError", TRUE, task)
                 ELSE RemainingChecks(payload)

Min(a, b) == IF a < b THEN a ELSE b

\* An index of a slice of a sequence of n items: a negative one counts from
\* the end, and both ends are clipped to 0..n.
SliceIndex(i, n) == IF i < 0 THEN (IF n + i < 0 THEN 0 ELSE n + i) ELSE Min(i, n)

\* s[start:stop] for integers start and stop.
PySlice(s, start, stop) ==
    SubSeq(s, SliceIndex(start, Len(s)) + 1, SliceIndex(stop, Len(s)))

\* payload.get(key, "") of lines 59-60, for the key of a flank.
GetFlank(payload, key) ==
    IF key \in payload.keys THEN payload[key] ELSE Flank("str", <<>>)

\* Lines 58-61: the flanking branch is entered when a flank key is there and
\* one of the two values is truthy.
Flanking(payload) ==
    /\ "upstream_seq" \in payload.keys \/ "downstream_seq" \in payload.keys
    /\ \E key \in {"upstream_seq", "downstream_seq"} :
           GetFlank(payload, key).t # "null" /\ GetFlank(payload, key).chars # <<>>

\* Lines 62-66: len() of a flank that is neither a str nor a list raises, before
\* any sequence is flanked.
FlankRaises(payload) ==
    IF Flanking(payload)
       /\ \E key \in {"upstream_seq", "downstream_seq"} :
              GetFlank(payload, key).t \notin {"str", "list"}
    THEN "TypeError" ELSE "none"

\* The text of a flank value as the f-string of line 74 writes it.
FlankText(flank) ==
    IF flank.t = "str" THEN flank.chars
    ELSE <<"[">> \o (IF flank.chars # <<>> THEN <<"'">> \o flank.chars \o <<"'">> ELSE <<>>)
         \o <<"]">>

\* Lines 58-75: the flanks are added to every sequence when one is non-empty.
ApplyFlanks(payload, sequences) ==
    IF Flanking(payload) /\ FlankRaises(payload) = "none"
    THEN [i \in DOMAIN sequences |->
             [k |-> sequences[i].k,
              v |-> FlankText(GetFlank(payload, "upstream_seq")) \o sequences[i].v
                    \o FlankText(GetFlank(payload, "downstream_seq"))]]
    ELSE sequences

\* TrimFrom reading an empty range as the range [0, 0].
RECURSIVE TrimFromEmptyAsFirst(_, _, _)
TrimFromEmptyAsFirst(prediction_ranges, sequences, i) ==
    IF i > Len(prediction_ranges) THEN sequences
    ELSE LET seq_id == prediction_ranges[i].k
             pr == prediction_ranges[i].v
             start == IF Truthy(pr) THEN pr.l[1].n ELSE 0
             end == IF Truthy(pr) THEN pr.l[2].n ELSE 0
         IN  TrimFromEmptyAsFirst(prediction_ranges,
                                  DictSet(sequences, seq_id,
                                          PySlice(DictGet(sequences, seq_id, <<>>),
                                                  start, end + 1)),
                                  i + 1)

\* What one pass of the loop of lines 79-84 raises for a non-empty range: the
\* unpacking of line 81 needs two items, line 83 looks the id up and then
\* slices, which takes integers only.
TrimRaisesAt(seq_id, pr, sequences) ==
    IF pr.t \notin {"list", "str"} THEN "TypeError"
    ELSE IF PyLen(pr) # 2 THEN "ValueError"
    ELSE IF ~DictHas(sequences, seq_id) THEN "KeyError"
    ELSE IF ~(Item(pr, 1).t = "int" /\ Item(pr, 2).t = "int") THEN "TypeError"
    ELSE "none"

\* Lines 78-84: every non-empty range replaces its sequence by the inclusive
\* slice, in the dict itself; a pass that raises leaves the earlier cuts done.
RECURSIVE TrimFrom(_, _, _)
TrimFrom(prediction_ranges, sequences, i) ==
    IF i > Len(prediction_ranges) THEN sequences
    ELSE LET seq_id == prediction_ranges[i].k
             pr == prediction_ranges[i].v
         IN  IF ~Truthy(pr) THEN TrimFrom(prediction_ranges, sequences, i + 1)
             ELSE IF TrimRaisesAt(seq_id, pr, sequences) # "none" THEN sequences
             ELSE TrimFrom(prediction_ranges,
                           DictSet(sequences, seq_id,
                                   PySlice(DictGet(sequences, seq_id, <<>>),
                                           pr.l[1].n, pr.l[2].n + 1)),
                           i + 1)

\* The exception of the first pass of that loop that raises.
RECURSIVE TrimRaisesFrom(_, _, _)
TrimRaisesFrom(prediction_ranges, sequences, i) ==
    IF i > Len(prediction_ranges) THEN "none"
    ELSE LET seq_id == prediction_ranges[i].k
             pr == prediction_ranges[i].v
         IN  IF ~Truthy(pr) THEN TrimRaisesFrom(prediction_ranges, sequences, i + 1)
             ELSE IF TrimRaisesAt(seq_id, pr, sequences) # "none"
                  THEN TrimRaisesAt(seq_id, pr, sequences)
             ELSE TrimRaisesFrom(prediction_ranges, sequences, i + 1)

TrimRaises(payload) ==
    IF "prediction_ranges" \in payload.keys
    THEN TrimRaisesFrom(payload.prediction_ranges, payload.sequences, 1)
    ELSE "none"

ApplyRanges(payload, sequences) ==
    IF "prediction_ranges" \in payload.keys
    THEN TrimFrom(payload.prediction_ranges, sequences, 1)
    ELSE sequences

\* ProcessedSequences with the two steps swapped: the ranges cut the sequences
\* as submitted, the flanks are added afterwards.
ProcessedSequencesTrimFirst(payload) ==
    ApplyFlanks(payload, ApplyRanges(payload, payload.sequences))

\* The sequence map preprocess_data has built when it reaches line 86, or
\* when the flanking or the loop of the ranges raises.
ProcessedSequences(payload) ==
    IF FlankRaises(payload) # "none" THEN payload.sequences
    ELSE ApplyRanges(payload, ApplyFlanks(payload, payload.sequences))

\* Lines 88-98: what preprocess_data raises on the processed sequences.
PreprocessRaise(payload, sequences) ==
    LET errors == check_seqs_specifications(sequences)
    IN  IF "readout" \notin payload.keys THEN Raise("KeyError", FALSE, <<>>)
        ELSE IF ~(payload.readout.t = "str" /\ payload.readout.s \in {"point", "track"})
        THEN Raise("BadRequestError", FALSE,
                   <<MId("unsupported_readout", PyStr(payload.readout))>>)
        ELSE IF errors # <<>> THEN Raise("PredictionFailedError", TRUE, errors)
        ELSE NoRaise

\* preprocess_data: the sequences dict as it leaves it, and what it raises.
preprocess_data(payload) ==
    LET sequences == ProcessedSequences(payload)
    IN  IF FlankRaises(payload) # "none"
        THEN [sequences |-> sequences, raised |-> Raise(FlankRaises(payload), FALSE, <<>>)]
        ELSE IF TrimRaises(payload) # "none"
        THEN [sequences |-> sequences, raised |-> Raise(TrimRaises(payload), FALSE, <<>>)]
        ELSE [sequences |-> sequences, raised |-> PreprocessRaise(payload, sequences)]

\* ------------------------------------------------------------------ cpg_utils

Max(a, b) == IF a > b THEN a ELSE b

\* The number of positions at which "CG" starts in s (already upper case).
CountCG(s) == Cardinality({i \in 1..(Len(s) - 1) : s[i] = "C" /\ s[i + 1] = "G"})

\* A predicted number: (num + epsilon) / den for the point readout,
\* (num / den) * 100 for the track readout (0 over 1 for the density 0 of an
\* empty window), its log2 when log is set (of the density plus epsilon for
\* the track readout).
Value(num, den, log) == [num |-> num, den |-> den, log |-> log]

\* cpg_mean counting CG in the sequence as given, without upper().
cpg_mean_case_sensitive(seq, scale_actual) ==
    Value(CountCG(seq), Len(seq), scale_actual = StrV("log"))

\* Lines 25-36: the count of CG in the upper-cased sequence over its length.
cpg_mean(seq, scale_actual) ==
    LET s == UpperSeq(seq)
    IN  Value(CountCG(s), Len(s), scale_actual = StrV("log"))

WindowSize == 50

\* Line 59: the blanks and line ends are dropped from the upper-cased sequence.
StripBlanks(s) == SelectSeq(s, LAMBDA c : c \notin {" ", "\n"})

\* calculate_cpg_per_base with the window of position i reaching to i + half_window
\* inclusive.
calculate_cpg_per_base_inclusive(sequence, scale_actual, window_size) ==
    LET s == StripBlanks(UpperSeq(sequence))
        seq_len == Len(s)
        half_window == window_size \div 2
    IN  [p \in 1..seq_len |->
            LET i == p - 1
                start == Max(0, i - half_window)
                end == Min(seq_len, i + half_window + 1)
            IN  IF end - start > 0
                THEN Value(CountCG(PySlice(s, start, end)), end - start, scale_actual = StrV("log"))
                ELSE Value(0, 1, scale_actual = StrV("log"))]

\* Lines 59-107: for every position i the density of the slice
\* sequence[max(0, i - half_window) : min(seq_len, i + half_window)].
calculate_cpg_per_base(sequence, scale_actual, window_size) ==
    LET s == StripBlanks(UpperSeq(sequence))
        seq_len == Len(s)
        half_window == window_size \div 2
    IN  [p \in 1..seq_len |->
            LET i == p - 1
                start == Max(0, i - half_window)
                end == Min(seq_len, i + half_window)
            IN  IF end - start > 0
                THEN Value(CountCG(PySlice(s, start, end)), end - start, scale_actual = StrV("log"))
                ELSE Value(0, 1, scale_actual = StrV("log"))]

\* What ends cpg_mean early: the division by len(s) of an empty sequence (line
\* 29), or the return of a name no branch has bound (line 36).
cpg_mean_raises(seq, scale_actual) ==
    IF Len(seq) = 0 THEN "ZeroDivisionError"
    ELSE IF scale_actual \notin {StrV("linear"), StrV("log")} THEN "UnboundLocalError"
    ELSE "none"

\* What ends calculate_cpg_per_base early: the return of line 107 when no
\* branch has bound cpg_bp.
calculate_cpg_per_base_raises(sequence, scale_actual) ==
    IF scale_actual \notin {StrV("linear"), StrV("log")} THEN "UnboundLocalError" ELSE "none"

\* The exception of the first sequence, in dict order, whose computation raises.
RECURSIVE FirstRaise(_, _, _, _)
FirstRaise(sequences, readout, scale_actual, i) ==
    IF i > Len(sequences) THEN "none"
    ELSE LET r == IF readout = "point" THEN cpg_mean_raises(sequences[i].v, scale_actual)
                  ELSE IF readout = "track"
                       THEN calculate_cpg_per_base_raises(sequences[i].v, scale_actual)
                  ELSE "none"
         IN  IF r # "none" THEN r ELSE FirstRaise(sequences, readout, scale_actual, i + 1)

\* predict_cpg: the predictions per sequence id and the scale used, or the
\* exception that ended it.
predict_cpg(sequences, readout, scale_requested) ==
    LET scale_actual == IF scale_requested.t = "null" THEN StrV("linear") ELSE scale_requested
    IN  [predictions |->
            IF readout \notin {"point", "track"} THEN <<>>
            ELSE
            [i \in DOMAIN sequences |->
                [k |-> sequences[i].k,
                 v |-> IF readout = "point"
                       THEN <<cpg_mean(sequences[i].v, scale_actual)>>
                       ELSE calculate_cpg_per_base(sequences[i].v, scale_actual, WindowSize)]],
         scale_actual |-> scale_actual,
         raised |-> FirstRaise(sequences, readout, scale_actual, 1)]

\* ---------------------------------------------------- predictor_content_handler

JSON == "application/json"
MSGPACK == "application/msgpack"

SUPPORTED_REQUEST_FORMATS == {JSON, MSGPACK}
SUPPORTED_RESPONSE_FORMATS == {JSON, MSGPACK}

\* str.lower() on the header values of the model.
Lower(h) ==
    CASE h = "Application/JSON" -> "application/json"
      [] h = "APPLICATION/MSGPACK" -> "application/msgpack"
      [] h = "Application/MsgPack, */*" -> "application/msgpack, */*"
      [] OTHER -> h

\* "application/msgpack" in h, for a lower-case header value of the model.
ContainsMsgpack(h) == h \in {"application/msgpack", "application/msgpack, */*"}

\* Whether the bytes of a body written in format fmt parse under format as: the
\* bytes of a JSON object are no MessagePack document (data follows the first
\* value) and the bytes of a MessagePack map are no JSON text.
Parses(fmt, as) == fmt = as

\* Flask's request.get_json(): it reads the body only when the request's own
\* Content-Type is JSON, and raises otherwise or when the body is no JSON.
GetJsonRaises(content_type_header, body) ==
    Lower(content_type_header) # JSON \/ ~Parses(body.fmt, "json")

\* ResolveContentType with .lower() forgotten.
ResolveContentTypeAsSent(content_type_header) ==
    IF content_type_header = "" THEN JSON ELSE content_type_header

\* The media type decode_request resolves from the Content-Type header ("" when
\* the header is absent).
ResolveContentType(content_type_header) ==
    IF content_type_header = "" THEN JSON ELSE Lower(content_type_header)

\* decode_request: the payload it returns, or what it raises.
decode_request(content_type_header, body, supported_request_formats) ==
    LET content_type == ResolveContentType(content_type_header)
    IN  IF content_type \notin supported_request_formats
        THEN [payload |-> body.payload,
              raised |-> Raise("BadRequestError", FALSE, <<MId("unsupported_content_type", content_type)>>)]
        ELSE IF content_type = JSON
        THEN IF GetJsonRaises(content_type_header, body)
             THEN [payload |-> body.payload,
                   raised |-> Raise("BadRequestError", FALSE, <<M0("json_parse_failed")>>)]
             ELSE [payload |-> body.payload, raised |-> NoRaise]
        ELSE IF content_type = MSGPACK
        THEN IF ~Parses(body.fmt, "msgpack")
             THEN [payload |-> body.payload,
                   raised |-> Raise("BadRequestError", FALSE, <<M0("msgpack_decode_failed")>>)]
             ELSE [payload |-> body.payload, raised |-> NoRaise]
        ELSE [payload |-> body.payload,
              raised |-> Raise("BadRequestError", FALSE, <<MId("unsupported_content_type", content_type)>>)]

\* ResponseFormat with "or" for "and", and the error flag not consulted.
ResponseFormatEither(isError, accept_header, supported_response_formats) ==
    IF ContainsMsgpack(Lower(accept_header)) \/ MSGPACK \in supported_response_formats
    THEN MSGPACK
    ELSE JSON

\* The format encode_response writes in (lines 64-79); supported is the set the
\* caller passed, {JSON} when it passed none.
ResponseFormat(isError, accept_header, supported_response_formats) ==
    IF isError THEN JSON
    ELSE IF ContainsMsgpack(Lower(accept_header)) /\ MSGPACK \in supported_response_formats
         THEN MSGPACK
         ELSE JSON

\* Lines 82-95: what encode_response raises for the payload of a success.
\* jsonify raises on a dict key that is bytes, which lines 93-95 turn into a
\* ServerError; the only dict of the payload whose keys come from the request
\* is predictions. msgpack.packb packs every value of the model, bytes keys
\* included, so lines 86-88 raise for none of them.
EncodeRaises(payload, response_format) ==
    IF /\ response_format = JSON
       /\ \E t \in DOMAIN payload.prediction_tasks :
              \E j \in DOMAIN payload.prediction_tasks[t].predictions :
                  LET k == payload.prediction_tasks[t].predictions[j].k
                  IN  Len(k) >= 2 /\ SubSeq(k, 1, 2) = "b'"
    THEN Raise("ServerError", FALSE, <<M0("json_serialize_failed")>>)
    ELSE NoRaise

\* --------------------------------------------------------------- the requests

\* A decoded request object; a field whose key is not in keys holds a default
\* that nothing reads.
Payload(keys, readout, prediction_tasks, sequences, prediction_ranges, upstream_seq, downstream_seq) ==
    [keys |-> keys, readout |-> readout, prediction_tasks |-> prediction_tasks,
     sequences |-> sequences, prediction_ranges |-> prediction_ranges,
     upstream_seq |-> upstream_seq, downstream_seq |-> downstream_seq]

Task(keys, name, type, cell_type, species, scale) ==
    [keys |-> keys, name |-> name, type |-> type, cell_type |-> cell_type,
     species |-> species, scale |-> scale]

NoFlank == Flank("null", <<>>)
EmptyPayload == Payload({}, NullV, <<>>, <<>>, <<>>, NoFlank, NoFlank)

\* Drops the fields whose keys are absent, so that one request has one form.
Normal(p) ==
    Payload(p.keys,
            IF "readout" \in p.keys THEN p.readout ELSE NullV,
            IF "prediction_tasks" \in p.keys THEN p.prediction_tasks ELSE <<>>,
            IF "sequences" \in p.keys THEN p.sequences ELSE <<>>,
            IF "prediction_ranges" \in p.keys THEN p.prediction_ranges ELSE <<>>,
            IF "upstream_seq" \in p.keys THEN p.upstream_seq ELSE NoFlank,
            IF "downstream_seq" \in p.keys THEN p.downstream_seq ELSE NoFlank)

GoodTask == Task(TaskMandatory, StrV("t1"), StrV("expression"), StrV("K562"), StrV("human"), NullV)

\* A task that differs from GoodTask in one field: the key dropped, or another value.
WithField(task, f, present, v) ==
    LET keys == IF present THEN task.keys \cup {f} ELSE task.keys \ {f}
        w == IF present THEN v ELSE NullV
    IN  Task(keys,
             IF f = "name" THEN w ELSE task.name,
             IF f = "type" THEN w ELSE task.type,
             IF f = "cell_type" THEN w ELSE task.cell_type,
             IF f = "species" THEN w ELSE task.species,
             IF f = "scale" THEN w ELSE task.scale)

AList == ListV(<<StrE("x")>>)

FieldValues(f) ==
    CASE f = "name" -> {AList, IntV(7)}
      [] f = "type" -> {StrV("binding_CTCF"), StrV("bogus"), AList, IntV(7)}
      [] f = "cell_type" -> {AList, IntV(7)}
      [] f = "species" -> {AList, IntV(7)}
      [] f = "scale" -> {StrV("linear"), StrV("log"), StrV("ln"), AList, IntV(7), NullV}

\* A task with every field wrong, a task with two keys missing and a bad name.
AllBadTask == Task(TaskMandatory \cup {"scale"}, AList, StrV("bogus"), IntV(7), AList, StrV("ln"))
TwoMissingTask == Task({"name", "cell_type"}, AList, NullV, StrV("K562"), NullV, NullV)
LogTask == Task(TaskMandatory \cup {"scale"}, StrV("t2"), StrV("accessibility"), StrV("K562"), StrV("human"), StrV("log"))

TaskSet ==
    {GoodTask, AllBadTask, TwoMissingTask, LogTask}
    \cup {WithField(GoodTask, f, FALSE, NullV) : f \in TaskMandatory}
    \cup UNION {{WithField(GoodTask, f, TRUE, v) : v \in FieldValues(f)} : f \in TaskMandatory \cup {"scale"}}

TaskLists(n) == UNION {[1..k -> TaskSet] : k \in 0..n}

IntPair(a, b) == ListV(<<IntE(a), IntE(b)>>)

\* The range values: the empty list, the pairs of integers, and values that
\* are neither.
RangeValues ==
    {ListV(<<>>)} \cup {IntPair(a, b) : a, b \in (-1)..MaxRangeIdx}
    \cup {ListV(<<IntE(0)>>), ListV(<<IntE(0), IntE(1), IntE(0)>>),
          ListV(<<StrE("a"), IntE(0)>>), ListV(<<IntE(0), StrE("a")>>), ListV(<<IntE(-1), StrE("a")>>),
          ListV(<<IntE(0), FloatE(1)>>), ListV(<<FloatE(0), IntE(5)>>),
          IntV(5), IntV(0), NullV, StrV("ab"), StrV("a"), StrV("")}

Entry(k, v) == [k |-> k, v |-> v]

ACGCGT == <<"A", "C", "G", "C", "G", "T">>
acgcgt == <<"a", "c", "g", "c", "g", "t">>

FStr(chars) == Flank("str", chars)

ReadoutValues ==
    {StrV("point"), StrV("track"), StrV("interaction_matrix"), StrV("bogus"),
     ListV(<<StrE("point")>>), IntV(1)}

\* A request as it arrives: the two headers ("" when absent) and the body, which
\* is the bytes of a payload written in body.fmt ("garbage": bytes of no format).
Request(content_type, accept, fmt, payload) ==
    [content_type |-> content_type, accept |-> accept,
     body |-> [fmt |-> fmt, payload |-> payload]]

WithKey(k, present) == IF present THEN {k} ELSE {}

\* A request of the family that varies the tasks.
FieldRequest(tasks, readout, up) ==
    Request(JSON, MSGPACK, "json",
            Normal(Payload(TopMandatory \cup WithKey("upstream_seq", up),
                           readout, tasks, <<Entry("s1", ACGCGT)>>, <<>>,
                           Flank("list", <<>>), NoFlank)))

\* A request of the family that varies the top-level keys.
KeyRequest(keys, readout, tasks, ranges) ==
    Request(JSON, MSGPACK, "json",
            Normal(Payload(keys, readout, tasks, <<Entry("s1", ACGCGT)>>, ranges,
                           NoFlank, NoFlank)))

\* A request of the family that varies one sequence, its range and the flanks.
RangeRequest(seq, has_range, range, up, down, readout) ==
    Request(JSON, MSGPACK, "json",
            Normal(Payload(TopMandatory \cup WithKey("prediction_ranges", has_range)
                                       \cup WithKey("upstream_seq", up.t # "null")
                                       \cup WithKey("downstream_seq", down.t # "null"),
                           readout, <<GoodTask>>, <<Entry("s1", seq)>>,
                           <<Entry("s1", range)>>, up, down)))

\* The dicts over the ids s1 and s2 with values of vals, in both key orders.
Dicts(vals) ==
    {<<Entry("s1", v)>> : v \in vals} \cup {<<Entry("s2", v)>> : v \in vals}
    \cup {<<Entry("s1", v), Entry("s2", w)>> : v, w \in vals}
    \cup {<<Entry("s2", v), Entry("s1", w)>> : v, w \in vals}

\* A request with up to two sequences and ranges whose keys may differ from theirs.
TwoSeqRequest(sequences, has_range, ranges, up) ==
    Request(JSON, MSGPACK, "json",
            Normal(Payload(TopMandatory \cup WithKey("prediction_ranges", has_range)
                                       \cup WithKey("upstream_seq", up),
                           StrV("point"), <<GoodTask, LogTask>>, sequences, ranges,
                           FStr(<<"C", "G">>), NoFlank)))

PointPayload ==
    Payload(TopMandatory, StrV("point"), <<GoodTask, LogTask>>, <<Entry("s1", ACGCGT)>>,
            <<>>, NoFlank, NoFlank)
BadCharPayload == [PointPayload EXCEPT !.sequences = <<Entry("s1", <<"A", "X">>)>>]
\* The sequence id is a MessagePack bin: unpackb gives the key as bytes.
BinPayload == [PointPayload EXCEPT !.sequences = <<Entry("b's1'", ACGCGT)>>]
CrashPayload ==
    [PointPayload EXCEPT !.keys = TopMandatory \cup {"prediction_ranges"},
                         !.prediction_ranges = <<Entry("s1", ListV(<<IntE(1)>>))>>]

ExamplePayloads ==
    {PointPayload, [PointPayload EXCEPT !.readout = StrV("track")],
     [PointPayload EXCEPT !.readout = StrV("interaction_matrix")],
     BadCharPayload, [PointPayload EXCEPT !.keys = {"readout"}], CrashPayload,
     BinPayload, [BinPayload EXCEPT !.prediction_tasks = <<>>]}

ContentTypes == {"", JSON, "Application/JSON", MSGPACK, "APPLICATION/MSGPACK", "text/plain"}
Accepts == {"", JSON, MSGPACK, "Application/MsgPack, */*"}

\* ------------------------------------------------------------ predictor_RestAPI

VARIABLES
    req,                \* the request being handled
    pc,                 \* where predict() is
    evaluator_request,  \* the decoded payload
    sequences,          \* what preprocess_data returned
    json_return,        \* the success payload predict() builds
    raised,             \* the exception in flight
    at,                 \* the call of predict() that ran last
    response,           \* the response sent
    reqs,               \* the requests handled at the same time, each with its own locals
    heap                \* the objects those requests have created

vars == <<req, pc, evaluator_request, sequences, json_return, raised, at, response, reqs, heap>>

NoReturn == [bin_size |-> 0, prediction_tasks |-> <<>>]
NoResponse ==
    [status |-> 0, mimetype |-> "", isError |-> FALSE, error_key |-> "",
     messages |-> <<>>, body |-> NoReturn]

\* predict() entered for the request r.
Alone(r) ==
    /\ req = r
    /\ pc = "decode"
    /\ evaluator_request = EmptyPayload
    /\ sequences = <<>>
    /\ json_return = NoReturn
    /\ raised = NoRaise
    /\ at = ""
    /\ response = NoResponse

\* One request in the server, and no other beside it.
Start(r) ==
    /\ reqs = <<>>
    /\ heap = <<>>
    /\ Alone(r)

InitFields ==
    \E tasks \in TaskLists(MaxTasks), readout \in {StrV("point"), ListV(<<StrE("point")>>)},
       up \in BOOLEAN :
        Start(FieldRequest(tasks, readout, up))

InitKeys ==
    \E keys \in SUBSET TopMandatory, readout \in ReadoutValues,
       tasks \in {<<>>, <<GoodTask>>, <<AllBadTask>>, <<TwoMissingTask, GoodTask>>},
       ranges \in {<<>>, <<Entry("s1", IntPair(0, 9))>>, <<Entry("s1", ListV(<<IntE(0)>>))>>} :
        Start(KeyRequest(keys \cup WithKey("prediction_ranges", ranges # <<>>),
                          readout, tasks, ranges))

InitRanges ==
    \E seq \in UNION {[1..k -> {"C", "g", "X"}] : k \in 0..MaxSeqLen}, has_range \in BOOLEAN,
       range \in RangeValues,
       up \in {NoFlank, FStr(<<>>), FStr(<<"C", "G">>), Flank("list", <<>>)},
       down \in {NoFlank, FStr(<<"g">>), Flank("int", <<>>)},
       readout \in {StrV("point"), StrV("track"), StrV("interaction_matrix")} :
        /\ has_range \/ range = ListV(<<>>)
        /\ Start(RangeRequest(seq, has_range, range, up, down, readout))

InitTwoSeqs ==
    \E seqs \in Dicts({<<>>, <<"C", "G">>, <<"X">>}), has_range \in BOOLEAN,
       ranges \in Dicts({ListV(<<>>), IntPair(0, 0), IntPair(0, 1), IntPair(1, 3),
                         ListV(<<IntE(0)>>)}),
       up \in BOOLEAN :
        /\ has_range \/ ranges = <<Entry("s1", ListV(<<>>))>>
        /\ Start(TwoSeqRequest(seqs, has_range, ranges, up))

InitHeaders ==
    \E content_type \in ContentTypes, accept \in Accepts,
       fmt \in {"json", "msgpack", "garbage"}, payload \in ExamplePayloads :
        /\ fmt = "garbage" => payload = PointPayload
        /\ DictHas(payload.sequences, "b's1'") => fmt = "msgpack"
        /\ Start(Request(content_type, accept, fmt,
                         IF fmt = "garbage" THEN EmptyPayload ELSE payload))

Init == InitFields \/ InitKeys \/ InitRanges \/ InitTwoSeqs \/ InitHeaders

\* The status code and error key each APIError subclass fixes.
StatusOf(type) ==
    CASE type = "BadRequestError" -> 400
      [] type = "PredictionFailedError" -> 422
      [] type = "ServerError" -> 500

ErrorKeyOf(type) ==
    CASE type = "BadRequestError" -> "bad_prediction_request"
      [] type = "PredictionFailedError" -> "prediction_request_failed"
      [] type = "ServerError" -> "server_error"

APIErrors == {"BadRequestError", "PredictionFailedError", "ServerError"}

\* predict(), line 115: decode_request.
Decode ==
    /\ pc = "decode"
    /\ LET d == decode_request(req.content_type, req.body, SUPPORTED_REQUEST_FORMATS)
       IN  IF d.raised = NoRaise
           THEN /\ evaluator_request' = d.payload
                /\ pc' = "validate"
                /\ UNCHANGED raised
           ELSE /\ raised' = d.raised
                /\ pc' = "except"
                /\ UNCHANGED evaluator_request
    /\ at' = "decode_request"
    /\ UNCHANGED <<req, sequences, json_return, response, reqs, heap>>

\* predict(), line 120: validate_request_payload.
Validate ==
    /\ pc = "validate"
    /\ LET r == validate_request_payload(evaluator_request)
       IN  /\ raised' = r
           /\ pc' = IF r = NoRaise THEN "preprocess" ELSE "except"
    /\ at' = "validate_request_payload"
    /\ UNCHANGED <<req, evaluator_request, sequences, json_return, response, reqs, heap>>

\* predict(), line 124: preprocess_data, which rewrites the payload's own
\* sequences dict before it checks it.
Preprocess ==
    /\ pc = "preprocess"
    /\ LET r == preprocess_data(evaluator_request)
       IN  /\ evaluator_request' = [evaluator_request EXCEPT !.sequences = r.sequences]
           /\ raised' = r.raised
           /\ IF r.raised = NoRaise
              THEN /\ sequences' = r.sequences
                   /\ pc' = "compute"
              ELSE /\ pc' = "except"
                   /\ UNCHANGED sequences
    /\ at' = "preprocess_data"
    /\ UNCHANGED <<req, json_return, response, reqs, heap>>

\* What one pass of the loop of lines 143-165 raises: the reads of "type" and
\* "cell_type" (lines 145-146), predict_cpg (149), the reads of "name" and
\* "species" (152, 157), and the append to a json_return that lines 127-140
\* have not bound (165).
TaskRaises(prediction_task, seqs, readout_type) ==
    LET scale_requested == IF "scale" \in prediction_task.keys THEN prediction_task.scale ELSE NullV
    IN  IF ~({"type", "cell_type"} \subseteq prediction_task.keys) THEN "KeyError"
        ELSE IF predict_cpg(seqs, readout_type, scale_requested).raised # "none"
             THEN predict_cpg(seqs, readout_type, scale_requested).raised
        ELSE IF ~({"name", "species"} \subseteq prediction_task.keys) THEN "KeyError"
        ELSE IF readout_type \notin {"point", "track"} THEN "UnboundLocalError"
        ELSE "none"

\* TaskResult reporting the scale used also as the scale requested.
TaskResultActualAsRequested(prediction_task, seqs, readout_type) ==
    LET scale_requested == IF "scale" \in prediction_task.keys THEN prediction_task.scale ELSE NullV
        p == predict_cpg(seqs, readout_type, scale_requested)
    IN  IF TaskRaises(prediction_task, seqs, readout_type) # "none" THEN <<>>
        ELSE <<[name |-> prediction_task.name,
                type_requested |-> prediction_task.type,
                cell_type_requested |-> prediction_task.cell_type,
                species_requested |-> prediction_task.species,
                scale_prediction_requested |-> p.scale_actual,
                scale_prediction_actual |-> p.scale_actual,
                predictions |-> p.predictions]>>

\* One pass of the loop of lines 143-165: what it appends to
\* json_return["prediction_tasks"], the entry of the task, or nothing when the
\* pass raises.
TaskResult(prediction_task, seqs, readout_type) ==
    LET scale_requested == IF "scale" \in prediction_task.keys THEN prediction_task.scale ELSE NullV
        p == predict_cpg(seqs, readout_type, scale_requested)
    IN  IF TaskRaises(prediction_task, seqs, readout_type) # "none" THEN <<>>
        ELSE <<[name |-> prediction_task.name,
                type_requested |-> prediction_task.type,
                cell_type_requested |-> prediction_task.cell_type,
                species_requested |-> prediction_task.species,
                scale_prediction_requested |-> scale_requested,
                scale_prediction_actual |-> p.scale_actual,
                predictions |-> p.predictions]>>

\* The loop of lines 143-165 from the task at index i: the entries appended,
\* the exception that ended it, and whether predict_cpg was called.
RECURSIVE TaskLoopFrom(_, _, _, _)
TaskLoopFrom(prediction_tasks, seqs, readout_type, i) ==
    IF i > Len(prediction_tasks)
    THEN [entries |-> <<>>, raised |-> "none", called |-> FALSE]
    ELSE LET task == prediction_tasks[i]
             exc == TaskRaises(task, seqs, readout_type)
         IN  IF exc # "none"
             THEN [entries |-> <<>>, raised |-> exc,
                   called |-> {"type", "cell_type"} \subseteq task.keys]
             ELSE LET rest == TaskLoopFrom(prediction_tasks, seqs, readout_type, i + 1)
                  IN  [entries |-> TaskResult(task, seqs, readout_type) \o rest.entries,
                       raised |-> rest.raised, called |-> TRUE]

\* predict(), lines 125-168: json_return as the code leaves it (json_return
\* itself when no branch of lines 127-140 binds it), the exception raised (the
\* read of evaluator_request["prediction_tasks"] at line 143, the one of the
\* loop, or the read of the unbound json_return at line 168) and whether
\* predict_cpg was called.
BuildReturn(request, seqs, unbound) ==
    LET readout_type == IF request.readout.t = "str" THEN request.readout.s ELSE ""
        bound == request.readout.t = "str" /\ readout_type \in {"point", "track"}
        has_tasks == "prediction_tasks" \in request.keys
        loop == IF has_tasks
                THEN TaskLoopFrom(request.prediction_tasks, seqs, readout_type, 1)
                ELSE [entries |-> <<>>, raised |-> "KeyError", called |-> FALSE]
    IN  [json_return |->
            IF bound
            THEN [bin_size |-> IF readout_type = "track" THEN 1 ELSE 0,
                  prediction_tasks |-> loop.entries]
            ELSE unbound,
         raised |-> IF loop.raised # "none" THEN loop.raised
                    ELSE IF ~bound THEN "UnboundLocalError"
                    ELSE "none",
         called |-> loop.called]

\* predict(), lines 125-165: the success payload, one entry per task; an
\* exception leaves the loop with the entries appended so far.
PredictTasks ==
    /\ pc = "compute"
    /\ LET b == BuildReturn(evaluator_request, sequences, json_return)
       IN  /\ json_return' = b.json_return
           /\ IF b.raised = "none"
              THEN /\ pc' = "encode"
                   /\ UNCHANGED raised
              ELSE /\ raised' = Raise(b.raised, FALSE, <<>>)
                   /\ pc' = "except"
           /\ at' = IF b.called THEN "predict_cpg" ELSE at
    /\ UNCHANGED <<req, evaluator_request, sequences, response, reqs, heap>>

\* predict(), lines 167-171: encode_response of the success payload, which
\* answers 200 or raises a ServerError inside the try of predict().
EncodeSuccess ==
    /\ pc = "encode"
    /\ LET response_format == ResponseFormat(FALSE, req.accept, SUPPORTED_RESPONSE_FORMATS)
           e == EncodeRaises(json_return, response_format)
       IN  IF e = NoRaise
           THEN /\ response' = [status |-> 200, mimetype |-> response_format,
                                isError |-> FALSE, error_key |-> "", messages |-> <<>>,
                                body |-> json_return]
                /\ pc' = "done"
                /\ UNCHANGED raised
           ELSE /\ raised' = e
                /\ pc' = "except"
                /\ UNCHANGED response
    /\ at' = "encode_response"
    /\ UNCHANGED <<req, evaluator_request, sequences, json_return, reqs, heap>>

\* predict(), lines 173-178: an APIError is raised again, anything else is
\* wrapped in a ServerError.
PredictExcept ==
    /\ pc = "except"
    /\ raised' = IF raised.type \in APIErrors THEN raised
                 ELSE Raise("ServerError", FALSE, <<MId("unexpected_internal_error", raised.type)>>)
    /\ pc' = "handler"
    /\ UNCHANGED <<req, at, evaluator_request, sequences, json_return, response, reqs, heap>>

\* create_error_response answering with the first message only.
create_error_response_first(error_key, message, status_code) ==
    [error_key |-> error_key, messages |-> SubSeq(message.items, 1, 1),
     status |-> status_code]

\* create_error_response: one {error_key: msg} per message; a message that is no
\* list is the one message.
create_error_response(error_key, message, status_code) ==
    [error_key |-> error_key, messages |-> message.items, status |-> status_code]

\* handle_api_error: the error response, encoded with isError and no supported
\* formats passed.
HandleApiError ==
    /\ pc = "handler"
    /\ LET e == create_error_response(ErrorKeyOf(raised.type), raised, StatusOf(raised.type))
       IN  response' = [status |-> e.status,
                        mimetype |-> ResponseFormat(TRUE, req.accept, {JSON}),
                        isError |-> TRUE, error_key |-> e.error_key,
                        messages |-> e.messages, body |-> NoReturn]
    /\ pc' = "done"
    /\ UNCHANGED <<req, at, evaluator_request, sequences, json_return, raised, reqs, heap>>

Next ==
    \/ Decode
    \/ Validate
    \/ Preprocess
    \/ PredictTasks
    \/ EncodeSuccess
    \/ PredictExcept
    \/ HandleApiError

Spec == Init /\ [][Next]_vars

\* ------------------------------------------- requests with longer sequences

\* A sequence of n letters with CG at the positions of starts (C at p, G at
\* p + 1 unless another CG starts there) and A elsewhere, in upper case, in
\* lower case, or with the case changing from letter to letter.
CpgSeq(n, starts, case) ==
    [i \in 1..n |->
        LET u == IF i \in starts THEN "C" ELSE IF (i - 1) \in starts THEN "G" ELSE "A"
            lower == case = "lower" \/ (case = "mixed" /\ i % 2 = 0)
        IN  IF ~lower THEN u
            ELSE CASE u = "C" -> "c" [] u = "G" -> "g" [] OTHER -> "a"]

LongRequest(seq, readout, tasks) ==
    Request(JSON, JSON, "json",
            Normal(Payload(TopMandatory, readout, tasks, <<Entry("s1", seq)>>, <<>>,
                           NoFlank, NoFlank)))

\* The requests with one sequence of up to MaxLongLen letters and no range or
\* flank; the sequence of no letters is answered 422.
InitLong ==
    \E n \in 0..MaxLongLen, case \in {"upper", "lower", "mixed"},
       readout \in {StrV("point"), StrV("track")},
       tasks \in {<<GoodTask>>, <<LogTask, GoodTask>>} :
        \/ \E p1, p2 \in 1..(IF n = 0 THEN 1 ELSE n) :
              /\ p1 <= p2
              /\ case = "lower" => p2 - p1 <= 2
              /\ Start(LongRequest(CpgSeq(n, {p1, p2}, case), readout, tasks))
        \/ /\ n = 0
           /\ Start(LongRequest(IF case = "lower" THEN acgcgt ELSE ACGCGT, readout, tasks))

SpecLong == InitLong /\ [][Next]_vars

\* --------------------------------------------------- requests handled together

\* Flask runs predict() once per request, each run with its own locals; the
\* runs share the process, so what a local names is an object of the one heap.
\* An object is a sequences dict (made by the decoder) or an error accumulator
\* (made at line 10 of validate_request_payload).
RequestIds == 1..MaxRequests

Cell(seqs, errors) == [sequences |-> seqs, errors |-> errors]

\* An allocation that hands out the same object every time.
SharedRef(h) == 1

\* A new object: request.get_json(), msgpack.unpackb and a dict display each
\* build one that nothing else refers to.
NewRef(h) == Len(h) + 1

Store(h, ref, cell) == IF ref > Len(h) THEN Append(h, cell) ELSE [h EXCEPT ![ref] = cell]

\* The locals of a run of predict() that has not started; 0 refers to nothing.
Locals(r) ==
    [req |-> r, pc |-> "decode", evaluator_request |-> EmptyPayload, sequences |-> 0,
     errors |-> 0, json_return |-> NoReturn, raised |-> NoRaise, response |-> NoResponse]

\* The payload as the run reads it: payload['sequences'] is the object the
\* decoder made, whatever has been written into it since.
PayloadOf(st) == [st.evaluator_request EXCEPT !.sequences = heap[st.sequences].sequences]

Others == <<req, pc, evaluator_request, sequences, json_return, raised, at, response>>

\* predict(), line 115.
DecodeOf(r) ==
    /\ reqs[r].pc = "decode"
    /\ LET st == reqs[r]
           d == decode_request(st.req.content_type, st.req.body, SUPPORTED_REQUEST_FORMATS)
           ref == NewRef(heap)
       IN  IF d.raised = NoRaise
           THEN /\ heap' = Store(heap, ref, Cell(d.payload.sequences, <<>>))
                /\ reqs' = [reqs EXCEPT ![r] = [st EXCEPT !.evaluator_request = d.payload,
                                                          !.sequences = ref,
                                                          !.pc = "validate"]]
           ELSE /\ reqs' = [reqs EXCEPT ![r] = [st EXCEPT !.raised = d.raised, !.pc = "except"]]
                /\ UNCHANGED heap
    /\ UNCHANGED Others

\* validate_request_payload, line 10: the accumulator of this call.
NewErrorsOf(r) ==
    /\ reqs[r].pc = "validate"
    /\ LET ref == NewRef(heap)
       IN  /\ heap' = Store(heap, ref, Cell(<<>>, <<>>))
           /\ reqs' = [reqs EXCEPT ![r] = [reqs[r] EXCEPT !.errors = ref, !.pc = "checks"]]
    /\ UNCHANGED Others

\* validate_request_payload, lines 13-44: the checks append to the accumulator,
\* also those that ran before a check raised, and BadRequestError carries what
\* the accumulator holds.
ChecksOf(r) ==
    /\ reqs[r].pc = "checks"
    /\ LET st == reqs[r]
           v == validate_request_payload(PayloadOf(st))
           collected == heap[st.errors].errors \o Accumulated(PayloadOf(st))
       IN  /\ heap' = [heap EXCEPT ![st.errors].errors = collected]
           /\ reqs' = [reqs EXCEPT ![r] =
                  [st EXCEPT !.raised = IF v.type = "BadRequestError"
                                        THEN Raise("BadRequestError", TRUE, collected)
                                        ELSE v,
                             !.pc = IF v = NoRaise THEN "flank" ELSE "except"]]
    /\ UNCHANGED Others

\* preprocess_data, lines 55-75: the flanks are written into the dict.
FlankOf(r) ==
    /\ reqs[r].pc = "flank"
    /\ LET st == reqs[r]
           p == PayloadOf(st)
       IN  /\ heap' = [heap EXCEPT ![st.sequences].sequences = ApplyFlanks(p, @)]
           /\ IF FlankRaises(p) # "none"
              THEN reqs' = [reqs EXCEPT ![r] =
                               [st EXCEPT !.raised = Raise(FlankRaises(p), FALSE, <<>>),
                                          !.pc = "except"]]
              ELSE reqs' = [reqs EXCEPT ![r].pc = "trim"]
    /\ UNCHANGED Others

\* preprocess_data, lines 78-84: the slices are written into the dict.
TrimOf(r) ==
    /\ reqs[r].pc = "trim"
    /\ LET st == reqs[r]
           p == PayloadOf(st)
       IN  /\ heap' = [heap EXCEPT ![st.sequences].sequences = ApplyRanges(p, @)]
           /\ IF TrimRaises(p) # "none"
              THEN reqs' = [reqs EXCEPT ![r] =
                               [st EXCEPT !.raised = Raise(TrimRaises(p), FALSE, <<>>),
                                          !.pc = "except"]]
              ELSE reqs' = [reqs EXCEPT ![r].pc = "check"]
    /\ UNCHANGED Others

\* preprocess_data, lines 86-100.
CheckSeqsOf(r) ==
    /\ reqs[r].pc = "check"
    /\ LET st == reqs[r]
           p == PayloadOf(st)
           e == PreprocessRaise(p, p.sequences)
       IN  reqs' = [reqs EXCEPT ![r] =
                      [st EXCEPT !.raised = e,
                                 !.pc = IF e = NoRaise THEN "compute" ELSE "except"]]
    /\ UNCHANGED <<heap, Others>>

\* predict(), lines 125-165.
PredictTasksOf(r) ==
    /\ reqs[r].pc = "compute"
    /\ LET st == reqs[r]
           b == BuildReturn(st.evaluator_request, heap[st.sequences].sequences, st.json_return)
       IN  reqs' = [reqs EXCEPT ![r] =
               [st EXCEPT !.json_return = b.json_return,
                          !.raised = IF b.raised = "none" THEN st.raised
                                     ELSE Raise(b.raised, FALSE, <<>>),
                          !.pc = IF b.raised = "none" THEN "encode" ELSE "except"]]
    /\ UNCHANGED <<heap, Others>>

\* predict(), lines 167-171.
EncodeSuccessOf(r) ==
    /\ reqs[r].pc = "encode"
    /\ LET st == reqs[r]
           response_format == ResponseFormat(FALSE, st.req.accept, SUPPORTED_RESPONSE_FORMATS)
           e == EncodeRaises(st.json_return, response_format)
       IN  reqs' = [reqs EXCEPT ![r] =
               IF e = NoRaise
               THEN [st EXCEPT !.response =
                        [status |-> 200, mimetype |-> response_format,
                         isError |-> FALSE, error_key |-> "", messages |-> <<>>,
                         body |-> st.json_return],
                               !.pc = "done"]
               ELSE [st EXCEPT !.raised = e, !.pc = "except"]]
    /\ UNCHANGED <<heap, Others>>

\* predict(), lines 173-178.
ExceptOf(r) ==
    /\ reqs[r].pc = "except"
    /\ LET st == reqs[r]
       IN  reqs' = [reqs EXCEPT ![r] =
               [st EXCEPT !.raised =
                   IF st.raised.type \in APIErrors THEN st.raised
                   ELSE Raise("ServerError", FALSE,
                              <<MId("unexpected_internal_error", st.raised.type)>>),
                          !.pc = "handler"]]
    /\ UNCHANGED <<heap, Others>>

\* handle_api_error.
HandleApiErrorOf(r) ==
    /\ reqs[r].pc = "handler"
    /\ LET st == reqs[r]
           e == create_error_response(ErrorKeyOf(st.raised.type), st.raised,
                                      StatusOf(st.raised.type))
       IN  reqs' = [reqs EXCEPT ![r] =
               [st EXCEPT !.response =
                   [status |-> e.status,
                    mimetype |-> ResponseFormat(TRUE, st.req.accept, {JSON}),
                    isError |-> TRUE, error_key |-> e.error_key,
                    messages |-> e.messages, body |-> NoReturn],
                          !.pc = "done"]]
    /\ UNCHANGED <<heap, Others>>

\* The requests sent together: one whose sequence is flanked and cut, one that
\* fails every field check, one whose range check raises, one whose answer
\* cannot be written as JSON.
TogetherRequests ==
    <<RangeRequest(<<"C", "g">>, TRUE, IntPair(0, 1), FStr(<<"C", "G">>), NoFlank, StrV("track")),
      FieldRequest(<<AllBadTask>>, ListV(<<StrE("point")>>), TRUE),
      Request(JSON, JSON, "json", CrashPayload),
      Request(MSGPACK, JSON, "msgpack", BinPayload)>>

\* MaxRequests runs of predict() at once; the run of req, pc and the other variables of one request
\* handles the first of the requests with nothing beside it. The runs after
\* the first are interchangeable, so their requests are taken in one order.
InitTogether ==
    \E rs \in [RequestIds -> DOMAIN TogetherRequests] :
        /\ \A i, j \in RequestIds \ {1} : i < j => rs[i] <= rs[j]
        /\ reqs = [r \in RequestIds |-> Locals(TogetherRequests[rs[r]])]
        /\ heap = <<>>
        /\ Alone(TogetherRequests[rs[1]])

\* Every run of reqs has answered.
AllAnswered == \A r \in DOMAIN reqs : reqs[r].pc = "done"

\* The runs interleave step by step; the run alone, which shares nothing with
\* them, is taken once they have answered.
NextTogether ==
    \/ AllAnswered /\ Next
    \/ \E r \in RequestIds : DecodeOf(r)
    \/ \E r \in RequestIds : NewErrorsOf(r)
    \/ \E r \in RequestIds : ChecksOf(r)
    \/ \E r \in RequestIds : FlankOf(r)
    \/ \E r \in RequestIds : TrimOf(r)
    \/ \E r \in RequestIds : CheckSeqsOf(r)
    \/ \E r \in RequestIds : PredictTasksOf(r)
    \/ \E r \in RequestIds : EncodeSuccessOf(r)
    \/ \E r \in RequestIds : ExceptOf(r)
    \/ \E r \in RequestIds : HandleApiErrorOf(r)

SpecTogether == InitTogether /\ [][NextTogether]_vars

\* ------------------------------------------------------------------ the claims

\* The payload as submitted in the body of the request.
Submitted == req.body.payload

\* decode_request returned and validate_request_payload has run.
ValidationRan == at \notin {"", "decode_request"}

\* The state in which validate_request_payload has just returned or raised.
ValidationEnded == at = "validate_request_payload" /\ pc \in {"preprocess", "except"}

\* The payload passes the two key stages of validate_request_payload.
KeysComplete ==
    /\ TopMandatory \subseteq Submitted.keys
    /\ \A i \in DOMAIN Submitted.prediction_tasks :
          TaskMandatory \subseteq Submitted.prediction_tasks[i].keys

Rank(k) == CHOOSE i \in DOMAIN KeyOrder : KeyOrder[i] = k

\* keys lists exactly the names of S, each once, in ascending order.
ListsSorted(keys, S) ==
    /\ {keys[i] : i \in DOMAIN keys} = S
    /\ Len(keys) = Cardinality(S)
    /\ \A i, j \in DOMAIN keys : i < j => Rank(keys[i]) < Rank(keys[j])

\* The response is the 400 that carries the messages of the BadRequestError raised.
Answered400 ==
    pc = "done" =>
        /\ response.status = 400
        /\ response.error_key = "bad_prediction_request"
        /\ response.messages = raised.items

\* C1: once the payload has passed the top-level-key stage and the task-key
\* stage, validate_request_payload runs every remaining check and, when any of
\* them reported a violation, raises one BadRequestError (status 400) whose
\* message list holds the messages of all the violated checks; it returns
\* when none did.
C1_RemainingChecksReportedTogether ==
    (ValidationEnded /\ KeysComplete) =>
        LET all == FieldChecks(Submitted) \o RangeChecks(Submitted).msgs \o FlankChecks(Submitted)
        IN  IF all # <<>>
            THEN /\ pc = "except"
                 /\ raised = Raise("BadRequestError", TRUE, all)
                 /\ StatusOf(raised.type) = 400
            ELSE pc = "preprocess" /\ raised = NoRaise

MissingTop == TopMandatory \ Submitted.keys

\* C2: a payload that misses a top-level key among readout, prediction_tasks,
\* sequences fails validation with status 400 and exactly one message, which
\* lists exactly the missing keys in sorted order; no message of a later stage
\* is in the error.
C2_MissingTopKeysOnly ==
    (ValidationRan /\ MissingTop # {}) =>
        /\ at = "validate_request_payload"
        /\ pc \in {"except", "handler", "done"}
        /\ raised.type = "BadRequestError"
        /\ raised.is_list
        /\ Len(raised.items) = 1
        /\ raised.items[1].kind = "missing_top_keys"
        /\ ListsSorted(raised.items[1].keys, MissingTop)
        /\ Answered400

\* C2's case: readout and sequences are missing from a payload whose tasks and
\* ranges break later checks too, and the 400 holds the one message.
C2_Witness ==
    /\ pc = "done"
    /\ MissingTop = {"readout", "sequences"}
    /\ Submitted.prediction_tasks = <<TwoMissingTask, GoodTask>>
    /\ "prediction_ranges" \in Submitted.keys
    /\ response.status = 400
    /\ Len(response.messages) = 1
    /\ response.messages[1].keys = <<"readout", "sequences">>

\* The positions (1-based) of the tasks that lack a mandatory key, in order.
OffendingTasks ==
    SelectSeq([i \in DOMAIN Submitted.prediction_tasks |-> i],
              LAMBDA i : ~(TaskMandatory \subseteq Submitted.prediction_tasks[i].keys))

\* m is the missing-keys message of the task at position i.
NamesTask(m, i) ==
    LET task == Submitted.prediction_tasks[i]
    IN  /\ m.kind = "missing_task_keys"
        /\ ListsSorted(m.keys, TaskMandatory \ task.keys)
        /\ IF "name" \in task.keys
           THEN m.id = PyStr(task.name) /\ m.a = -1
           ELSE m.id = "at index" /\ m.a = i - 1

\* C3: a payload with all top-level keys in which a task lacks one of name,
\* type, cell_type, species fails validation with status 400 before any
\* type/enum check: one message per offending task and none for a complete
\* one, each naming the task (by name when it has one, else by its index) and
\* its missing keys sorted; no message of a later check is in the error.
C3_MissingTaskKeysOnly ==
    (ValidationRan /\ MissingTop = {} /\ OffendingTasks # <<>>) =>
        /\ at = "validate_request_payload"
        /\ pc \in {"except", "handler", "done"}
        /\ raised.type = "BadRequestError"
        /\ raised.is_list
        /\ Len(raised.items) = Len(OffendingTasks)
        /\ \A j \in DOMAIN OffendingTasks : NamesTask(raised.items[j], OffendingTasks[j])
        /\ Answered400

\* C3's case: a task with a name and one without both lack keys, the readout is
\* a list, and the 400 holds the two task messages only.
C3_Witness ==
    /\ pc = "done"
    /\ Submitted.prediction_tasks = <<TwoMissingTask, WithField(GoodTask, "name", FALSE, NullV)>>
    /\ Submitted.readout.t = "list"
    /\ response.status = 400
    /\ Len(response.messages) = 2
    /\ response.messages[1].a = -1
    /\ response.messages[2].a = 1

\* A range value that is no list, a non-empty list whose length is not 2, or a
\* list with an element that is no integer.
MalformedRange(v) ==
    \/ v.t # "list"
    \/ v.l # <<>> /\ Len(v.l) # 2
    \/ \E i \in DOMAIN v.l : v.l[i].t # "int"

HasMalformedRange ==
    /\ "prediction_ranges" \in Submitted.keys
    /\ \E i \in DOMAIN Submitted.prediction_ranges :
          MalformedRange(Submitted.prediction_ranges[i].v)

\* C4: a request whose prediction_ranges holds a malformed range value is
\* answered with status 400 and key bad_prediction_request, with a message
\* about that range among the messages, and never with 500 server_error.
C4_MalformedRangeAnswered400 ==
    (pc = "done" /\ ValidationRan /\ KeysComplete /\ HasMalformedRange) =>
        /\ response.status = 400
        /\ response.error_key = "bad_prediction_request"
        /\ \E i \in DOMAIN response.messages :
              response.messages[i].kind \in {"range_not_list", "range_not_2", "range_not_int"}

\* A range value that is a pair of integers.
IntegerPair(v) == v.t = "list" /\ Len(v.l) = 2 /\ v.l[1].t = "int" /\ v.l[2].t = "int"

\* The length of the sequence submitted under key (0 when there is none).
SubmittedLen(key) == Len(DictGet(Submitted.sequences, key, <<>>))

RangesWellFormed ==
    /\ DictKeys(Submitted.prediction_ranges) = DictKeys(Submitted.sequences)
    /\ \A i \in DOMAIN Submitted.prediction_ranges :
          LET e == Submitted.prediction_ranges[i]
          IN  \/ e.v = ListV(<<>>)
              \/ /\ IntegerPair(e.v)
                 /\ 0 <= e.v.l[1].n
                 /\ e.v.l[1].n <= e.v.l[2].n
                 /\ e.v.l[2].n < SubmittedLen(e.k)

RangeKinds ==
    {"seq_ids_mismatch", "range_not_list", "range_not_2", "range_not_int", "range_negative",
     "range_start_gt_end", "range_empty_seq", "range_oob"}

\* Validation ended without a complaint about the ranges.
RangesAccepted ==
    /\ raised.type \in {"none", "BadRequestError"}
    /\ \A j \in DOMAIN raised.items : raised.items[j].kind \notin RangeKinds

\* The out-of-bounds message the claim names for the pair under key.
BoundsMessage(key) ==
    IF SubmittedLen(key) = 0 THEN MId("range_empty_seq", key)
    ELSE Msg("range_oob", key, <<>>, {}, SubmittedLen(key), SubmittedLen(key) - 1)

\* Every pair of integers that reaches past the submitted sequence has its
\* out-of-bounds message among the messages of the BadRequestError.
PairsPastEndReported ==
    \A i \in DOMAIN Submitted.prediction_ranges :
        LET e == Submitted.prediction_ranges[i]
        IN  (IntegerPair(e.v) /\ (e.v.l[1].n >= SubmittedLen(e.k) \/ e.v.l[2].n >= SubmittedLen(e.k)))
            => /\ raised.type = "BadRequestError"
               /\ \E j \in DOMAIN raised.items : raised.items[j] = BoundsMessage(e.k)

RangesChecked ==
    ValidationEnded /\ KeysComplete /\ "prediction_ranges" \in Submitted.keys

\* C5: with prediction_ranges given, validation accepts the ranges iff their key
\* set is that of sequences and every range is [] or a pair of integers with
\* 0 <= start <= end < the length of the sequence as submitted; a pair with
\* start or end at or past that length is rejected with the out-of-bounds
\* message naming length - 1, or the empty-sequence message when the length is 0.
C5_RangesAcceptedIffInBounds ==
    RangesChecked => (RangesAccepted <=> RangesWellFormed) /\ PairsPastEndReported

\* What of C5 the code does keep: the acceptance test always, the message of a
\* pair past the end whenever no range value made the check raise.
C5_HoldsUnlessRangeCheckRaises ==
    RangesChecked =>
        /\ RangesAccepted <=> RangesWellFormed
        /\ raised.type \in {"none", "BadRequestError"} => PairsPastEndReported

\* The Accept header names application/msgpack, in any letter case.
AcceptsMsgpack == req.accept \in {MSGPACK, "Application/MsgPack, */*"}

\* C6: the response is written as application/msgpack exactly when it is no
\* error, the Accept header contains application/msgpack and the server's
\* supported response formats contain it; otherwise as application/json. Every
\* response to a raised error is an error response, hence JSON.
C6_MsgpackOnlyForNegotiatedSuccess ==
    pc = "done" =>
        /\ response.isError <=> raised # NoRaise
        /\ response.mimetype =
              IF ~response.isError /\ AcceptsMsgpack /\ MSGPACK \in SUPPORTED_RESPONSE_FORMATS
              THEN MSGPACK ELSE JSON
        /\ response.isError => response.mimetype = JSON

\* C6's case: a 422 answered in JSON to a request that accepts msgpack only.
C6_Witness ==
    /\ pc = "done"
    /\ req.accept = MSGPACK
    /\ response.isError
    /\ response.status = 422
    /\ response.mimetype = JSON

\* The media type the Content-Type header declares, letter case aside; JSON
\* when the header is absent.
DeclaredType ==
    CASE req.content_type \in {"", JSON, "Application/JSON"} -> JSON
      [] req.content_type \in {MSGPACK, "APPLICATION/MSGPACK"} -> MSGPACK
      [] OTHER -> req.content_type

\* The body is a document of the declared format.
BodyParses ==
    \/ DeclaredType = JSON /\ req.body.fmt = "json"
    \/ DeclaredType = MSGPACK /\ req.body.fmt = "msgpack"

DecodeMustFail == DeclaredType \notin {JSON, MSGPACK} \/ ~BodyParses

\* C7: decode_request takes the format from the Content-Type header compared
\* case-insensitively (JSON when absent); a declared type that is not supported,
\* or a body that does not parse under it, fails the request with a 400
\* bad_prediction_request and never a 500; a body that parses under a declared
\* supported type, whatever the header's letter case, is decoded.
C7_DecodeFailureIs400 ==
    pc # "decode" =>
        /\ DecodeMustFail => at = "decode_request" /\ pc # "validate"
        /\ (at = "decode_request" /\ pc # "validate") =>
              /\ raised.type = "BadRequestError"
              /\ pc = "done" =>
                    response.status = 400 /\ response.error_key = "bad_prediction_request"
        /\ (~DecodeMustFail /\ req.content_type # "") =>
              /\ evaluator_request.keys = Submitted.keys
              /\ at = "decode_request" => pc = "validate" /\ raised = NoRaise

\* C7's case: Content-Type application/msgpack on a body of JSON bytes is
\* answered with 400.
C7_Witness ==
    /\ pc = "done"
    /\ req.content_type = MSGPACK
    /\ req.body.fmt = "json"
    /\ at = "decode_request"
    /\ response.status = 400

\* preprocess_data has run on the payload.
Preprocessed == at \in {"preprocess_data", "predict_cpg", "encode_response"}

SubmittedUpstream ==
    IF "upstream_seq" \in Submitted.keys THEN Submitted.upstream_seq.chars ELSE <<>>
SubmittedDownstream ==
    IF "downstream_seq" \in Submitted.keys THEN Submitted.downstream_seq.chars ELSE <<>>

\* The sequence submitted under key with the flanks around it.
Flanked(key) == SubmittedUpstream \o DictGet(Submitted.sequences, key, <<>>) \o SubmittedDownstream

\* The characters of s at the 0-based positions start..end.
InclusiveSlice(s, start, end) == [j \in 1..(end - start + 1) |-> s[start + j]]

\* C8: preprocess_data flanks before it trims: the sequence of every id with a
\* non-empty range [start, end] is the inclusive slice [start..end] of
\* upstream_seq + original + downstream_seq.
C8_RangeCutsFlankedSequence ==
    Preprocessed =>
        \A i \in DOMAIN Submitted.prediction_ranges :
            LET e == Submitted.prediction_ranges[i]
            IN  e.v # ListV(<<>>) =>
                    DictGet(evaluator_request.sequences, e.k, <<>>)
                        = InclusiveSlice(Flanked(e.k), e.v.l[1].n, e.v.l[2].n)

\* C8's case: upstream CG, a two-letter sequence, range [0, 1]: the result is
\* "CG", the first two letters of the flanked sequence, not the sequence sent.
C8_Witness ==
    /\ Preprocessed
    /\ SubmittedUpstream = <<"C", "G">>
    /\ Submitted.sequences = <<Entry("s1", <<"X", "X">>)>>
    /\ Submitted.prediction_ranges = <<Entry("s1", IntPair(0, 1))>>
    /\ evaluator_request.sequences = <<Entry("s1", <<"C", "G">>)>>
    /\ sequences = <<Entry("s1", <<"C", "G">>)>>

ValidLetters == {"A", "C", "G", "T", "N", "a", "c", "g", "t", "n"}

\* The ids whose sequence, as preprocess_data left it, is empty or holds a
\* letter outside A, C, G, T, N in either case.
OffendingIds ==
    {evaluator_request.sequences[i].k : i \in
        {i \in DOMAIN evaluator_request.sequences :
            \/ evaluator_request.sequences[i].v = <<>>
            \/ \E j \in DOMAIN evaluator_request.sequences[i].v :
                  evaluator_request.sequences[i].v[j] \notin ValidLetters}}

\* C9: for a validated request with a supported readout, preprocess_data
\* returns the sequence map iff every flanked and trimmed sequence is non-empty
\* and made of A, C, G, T, N in either case; otherwise it raises once, a 422
\* prediction_request_failed whose messages name every offending id.
C9_SequencesCheckedTogether ==
    (at = "preprocess_data" /\ Submitted.readout.s \in {"point", "track"}) =>
        IF OffendingIds = {}
        THEN /\ pc \in {"compute", "encode"}
             /\ pc = "encode" => Submitted.prediction_tasks = <<>>
             /\ raised = NoRaise
             /\ sequences = evaluator_request.sequences
        ELSE /\ pc \in {"except", "handler", "done"}
             /\ raised.type = "PredictionFailedError"
             /\ raised.is_list
             /\ {raised.items[j].id : j \in DOMAIN raised.items} = OffendingIds
             /\ pc = "done" =>
                   /\ response.status = 422
                   /\ response.error_key = "prediction_request_failed"
                   /\ response.messages = raised.items

\* C9's case: two offending sequences, one empty and one with an X, both named
\* in the one 422.
C9_Witness ==
    /\ pc = "done"
    /\ at = "preprocess_data"
    /\ OffendingIds = {"s1", "s2"}
    /\ response.status = 422
    /\ Len(response.messages) = 2
    /\ response.messages[1].kind = "seq_invalid_chars"
    /\ response.messages[2].kind = "seq_empty"

\* C10: a request that passes validation with the readout interaction_matrix,
\* which the model does not support, is answered with key
\* prediction_request_failed and status 422.
C10_UnsupportedReadoutIs422 ==
    (pc = "done" /\ at \notin {"", "decode_request", "validate_request_payload"}
        /\ Submitted.readout = StrV("interaction_matrix")) =>
        /\ response.error_key = "prediction_request_failed"
        /\ response.status = 422

\* The three kinds of error answer: the key and the status each fixes.
ErrorPairs ==
    {<<"bad_prediction_request", 400>>, <<"prediction_request_failed", 422>>,
     <<"server_error", 500>>}

\* What holds of the answer once predict() has ended.
C11_Answer ==
    /\ (pc = "done") <=> (response # NoResponse)
    /\ pc # "done" => ENABLED Next
    /\ pc = "done" =>
        /\ response.status \in {200, 400, 422, 500}
        /\ response.isError <=> raised # NoRaise
        /\ response.isError <=> response.status # 200
        /\ response.isError =>
            /\ <<response.error_key, response.status>> \in ErrorPairs
            /\ raised.type \in APIErrors
            /\ response.error_key = ErrorKeyOf(raised.type)
            /\ response.messages = raised.items
            /\ at = "encode_response" =>
                   /\ response.status = 500
                   /\ Len(response.messages) = 1
                   /\ json_return.prediction_tasks # <<>>
        /\ response.status = 200 =>
            /\ at = "encode_response"
            /\ response.messages = <<>>

\* What holds of every step: an exception of any stage goes to the except
\* clause, an exception that is no APIError leaves it as a ServerError with
\* one message, an APIError leaves it as it is, and an answer is never replaced.
C11_Step ==
    /\ (raised = NoRaise /\ raised' # NoRaise) => pc' = "except"
    /\ (pc = "except" /\ raised.type \notin APIErrors) =>
           (raised'.type = "ServerError" /\ Len(raised'.items) = 1 /\ pc' = "handler")
    /\ (pc = "except" /\ raised.type \in APIErrors) => (raised' = raised /\ pc' = "handler")
    /\ response # NoResponse => response' = response

\* C11: every /predict request ends in exactly one response. When a stage
\* raises, the answer is an error body with one entry per accumulated message,
\* in order, whose key and status are bad_prediction_request/400,
\* prediction_request_failed/422 or server_error/500; an exception of any other
\* kind is caught and answered as server_error/500; and 200 is answered only
\* when every stage ended without an exception.
C11_EveryRequestAnsweredOnce == [](C11_Answer) /\ [][C11_Step]_vars

\* A request that passed every stage up to the computation and whose success
\* payload encode_response could not write has been answered server_error/500
\* with the one message of the ServerError.
C11_Witness ==
    /\ pc = "done"
    /\ at = "encode_response"
    /\ Len(json_return.prediction_tasks) = 2
    /\ response.status = 500
    /\ response.error_key = "server_error"
    /\ response.body = NoReturn
    /\ Len(response.messages) = 1

\* preprocess_data has returned: what it returned is in sequences.
PreprocessReturned == Preprocessed /\ raised = NoRaise

\* The ids submitted with the empty-list range.
EmptyRangeIds ==
    {Submitted.prediction_ranges[i].k : i \in
        {j \in DOMAIN Submitted.prediction_ranges : Submitted.prediction_ranges[j].v = ListV(<<>>)}}

\* C12: a sequence whose range is the empty list [] comes back from
\* preprocess_data as it was submitted, with or without upstream_seq and
\* downstream_seq in the payload.
C12_EmptyRangeLeavesSequenceUnchanged ==
    PreprocessReturned =>
        \A id \in EmptyRangeIds :
            DictGet(sequences, id, <<>>) = DictGet(Submitted.sequences, id, <<>>)

\* C12 as amended: a sequence whose range is the empty list [] comes back
\* untrimmed, as upstream_seq + the sequence submitted + downstream_seq, which
\* is the sequence submitted when no flank is given or both are empty.
C12_EmptyRangeLeavesFlankedSequence ==
    PreprocessReturned =>
        \A id \in EmptyRangeIds :
            /\ DictGet(sequences, id, <<>>) = Flanked(id)
            /\ (SubmittedUpstream = <<>> /\ SubmittedDownstream = <<>>) =>
                   DictGet(sequences, id, <<>>) = DictGet(Submitted.sequences, id, <<>>)

\* C12's case: the range of s1 is [], upstream_seq is CG, and what comes back
\* for s1 is longer than what was sent.
C12_Witness ==
    /\ PreprocessReturned
    /\ "s1" \in EmptyRangeIds
    /\ SubmittedUpstream = <<"C", "G">>
    /\ Len(DictGet(sequences, "s1", <<>>)) = Len(DictGet(Submitted.sequences, "s1", <<>>)) + 2

\* predict() has left the task loop without an exception: json_return holds
\* one entry per task.
Computed == at \in {"predict_cpg", "encode_response"} /\ raised = NoRaise

IsC(c) == c \in {"C", "c"}
IsG(c) == c \in {"G", "g"}

\* The number of CG pairs that lie within the 0-based positions lo..hi of s.
PairsWithin(s, lo, hi) ==
    Cardinality({j \in lo..(hi - 1) : IsC(s[j + 1]) /\ IsG(s[j + 2])})

\* Every track prediction has one value per position of its sequence, and the
\* value of position i counts the CG pairs of the positions i - 25 .. i + right,
\* clipped to the sequence, over the number of those positions.
TrackValuesOver(right) ==
    \A t \in DOMAIN json_return.prediction_tasks :
        LET predictions == json_return.prediction_tasks[t].predictions
        IN  \A j \in DOMAIN predictions :
                LET s == DictGet(sequences, predictions[j].k, <<>>)
                    v == predictions[j].v
                IN  /\ DOMAIN v = 1..Len(s)
                    /\ \A p \in 1..Len(s) :
                           LET i == p - 1
                               lo == Max(0, i - 25)
                               hi == Min(Len(s) - 1, i + right)
                           IN  /\ v[p].num = PairsWithin(s, lo, hi)
                               /\ v[p].den = hi - lo + 1

\* Every track value of a task is the log2 of (density + epsilon) exactly when
\* the task asked for the scale log.
TrackLogFollowsScale ==
    \A t \in DOMAIN json_return.prediction_tasks :
        LET entry == json_return.prediction_tasks[t]
        IN  \A j \in DOMAIN entry.predictions :
                \A p \in DOMAIN entry.predictions[j].v :
                    entry.predictions[j].v[p].log
                        <=> (entry.scale_prediction_requested = StrV("log"))

\* C13: for the track readout there is one value per base position, in
\* position order, and the value of position i is the number of CG in the
\* window [i - 25, i + 25], clipped to the sequence, divided by the length
\* of the clipped window, times 100.
C13_TrackWindowSymmetric ==
    (Computed /\ Submitted.readout = StrV("track")) => TrackValuesOver(25)

\* C13 as amended: the window of position i is [i - 25, i + 24], the slice
\* [i - 25 : i + 25] of 50 positions, clipped to the sequence; the value is
\* the number of CG in it over its length, times 100, and the log2 of that
\* plus epsilon for the scale log.
C13_TrackWindowHalfOpen ==
    (Computed /\ Submitted.readout = StrV("track")) =>
        (TrackValuesOver(24) /\ TrackLogFollowsScale)

\* C13's case: a sequence of 27 letters, where position 0 sees 25 positions
\* and not 26, and a CG is counted.
C13_Witness ==
    /\ Computed
    /\ Submitted.readout = StrV("track")
    /\ Len(DictGet(sequences, "s1", <<>>)) = 27
    /\ json_return.prediction_tasks[1].predictions[1].v[1].den = 25
    /\ json_return.prediction_tasks[1].predictions[1].v[1].num >= 1

\* Every point prediction is the list of one value, the number of adjacent
\* pairs CG of the sequence (in either case) plus epsilon over its length.
PointValues ==
    \A t \in DOMAIN json_return.prediction_tasks :
        LET entry == json_return.prediction_tasks[t]
        IN  \A j \in DOMAIN entry.predictions :
                LET s == DictGet(sequences, entry.predictions[j].k, <<>>)
                    v == entry.predictions[j].v
                IN  /\ Len(v) = 1
                    /\ v[1].num = PairsWithin(s, 0, Len(s) - 1)
                    /\ v[1].den = Len(s)
                    /\ v[1].log <=> (entry.scale_prediction_actual = StrV("log"))
                    /\ v[1].num <= Len(s) \div 2
                    /\ s \in {ACGCGT, acgcgt} => v[1].num = 2

\* C14: for the point readout the count of a sequence s is the number of
\* positions i, 0 <= i < len(s) - 1, with s[i] s[i+1] = CG whatever the case
\* (2 for ACGCGT and for acgcgt); the prediction is the one-element list of
\* (count + epsilon) / len(s), its log2 for the scale log; and the count is
\* at most len(s) div 2.
C14_PointCountsAdjacentPairs ==
    (Computed /\ Submitted.readout = StrV("point")) => PointValues

\* C14's case: acgcgt, in lower case, has been counted as 2 over 6 for a task
\* of scale log.
C14_Witness ==
    /\ Computed
    /\ Submitted.readout = StrV("point")
    /\ sequences = <<Entry("s1", acgcgt)>>
    /\ json_return.prediction_tasks[1].predictions[1].v = <<Value(2, 6, TRUE)>>

\* The request has been answered 200.
Succeeded == pc = "done" /\ response.status = 200

\* The entry of the answer for the task at index i of the request.
EntryMatchesTask(entry, task) ==
    LET requested == IF "scale" \in task.keys THEN task.scale ELSE NullV
    IN  /\ entry.name = task.name
        /\ entry.scale_prediction_requested = requested
        /\ entry.scale_prediction_actual =
               (IF "scale" \in task.keys THEN task.scale ELSE StrV("linear"))
        /\ Len(entry.predictions) = Len(Submitted.sequences)
        /\ {entry.predictions[j].k : j \in DOMAIN entry.predictions}
               = DictKeys(Submitted.sequences)

\* C16: a successful answer has one result entry per task of the request, in
\* request order and under the task's name; the entry reports the scale
\* requested (null when the task has none) and the scale used (linear when
\* the task has none, the requested one otherwise); its predictions have
\* exactly the sequence ids of the request; bin_size 1 is there iff the
\* readout is track.
C16_OneEntryPerTask ==
    Succeeded =>
        /\ Len(response.body.prediction_tasks) = Len(Submitted.prediction_tasks)
        /\ \A i \in DOMAIN Submitted.prediction_tasks :
               EntryMatchesTask(response.body.prediction_tasks[i], Submitted.prediction_tasks[i])
        /\ (response.body.bin_size = 1) <=> (Submitted.readout = StrV("track"))

\* C16's case: two tasks, the first without a scale and the second with log,
\* and two sequences: the answer has the two entries with linear and log.
C16_Witness ==
    /\ Succeeded
    /\ Len(Submitted.prediction_tasks) = 2
    /\ Len(Submitted.sequences) = 2
    /\ response.body.prediction_tasks[1].scale_prediction_requested = NullV
    /\ response.body.prediction_tasks[1].scale_prediction_actual = StrV("linear")
    /\ response.body.prediction_tasks[2].scale_prediction_actual = StrV("log")

\* The ranges submitted that are pairs, as <<id, start, end>>.
SubmittedPairs ==
    {<<Submitted.prediction_ranges[i].k, Submitted.prediction_ranges[i].v.l[1].n,
       Submitted.prediction_ranges[i].v.l[2].n>> :
        i \in {j \in DOMAIN Submitted.prediction_ranges :
                  Submitted.prediction_ranges[j].v # ListV(<<>>)}}

\* C17: for every request that passed validate_request_payload,
\* preprocess_data does not fail on a missing sequence id, every sequence
\* with a non-empty range [start, end] has exactly end - start + 1 characters
\* after trimming, at least one, and the computation does not get a sequence
\* that trimming has emptied.
C17_ValidatedRangesTrimInFull ==
    Preprocessed =>
        /\ (at = "preprocess_data" /\ pc = "except") => raised.type \in APIErrors
        /\ \A r \in SubmittedPairs :
               /\ DictHas(Submitted.sequences, r[1])
               /\ Len(DictGet(evaluator_request.sequences, r[1], <<>>)) = r[3] - r[2] + 1
               /\ Len(DictGet(evaluator_request.sequences, r[1], <<>>)) >= 1
        /\ at = "predict_cpg" =>
               /\ raised = NoRaise
               /\ \A r \in SubmittedPairs : Len(DictGet(sequences, r[1], <<>>)) >= 1

\* C17's case: the range [1, 1], the last index of a two-letter sequence, has
\* been cut to one letter and the computation has run on it.
C17_Witness ==
    /\ at = "predict_cpg"
    /\ Len(Submitted.sequences) = 1
    /\ Len(Submitted.sequences[1].v) = 2
    /\ SubmittedPairs = {<<"s1", 1, 1>>}
    /\ Len(DictGet(sequences, "s1", <<>>)) = 1

\* The objects a run of predict() reads through its locals.
ObjectsOf(st) ==
    <<IF st.sequences = 0 THEN Cell(<<>>, <<>>) ELSE heap[st.sequences],
      IF st.errors = 0 THEN Cell(<<>>, <<>>) ELSE heap[st.errors]>>

\* What a run reads: its locals and the objects they name.
ReadBy(r) == <<reqs[r], ObjectsOf(reqs[r])>>

\* A run that handles the request the run alone handles ends with the same
\* sequences, the same messages and the same answer.
SameAsAlone ==
    \A r \in DOMAIN reqs :
        (reqs[r].req = req /\ reqs[r].pc = "done" /\ pc = "done") =>
            /\ reqs[r].raised = raised
            /\ reqs[r].json_return = json_return
            /\ reqs[r].response = response
            /\ reqs[r].sequences # 0 =>
                   heap[reqs[r].sequences].sequences = evaluator_request.sequences
            /\ (reqs[r].errors # 0 /\ raised.type = "BadRequestError") =>
                   heap[reqs[r].errors].errors = raised.items

\* A step of one run leaves what every other run reads as it was.
StepsApart ==
    \A r, o \in DOMAIN reqs :
        (r # o /\ reqs'[r] # reqs[r]) => ReadBy(o)' = ReadBy(o)

\* C15: requests handled at the same time are isolated. However the steps of
\* two or more runs of predict() interleave, the error accumulator, the
\* flanked and trimmed sequences and the answer of a run are those of the
\* same request handled alone, and no step of a run (the writes of
\* preprocess_data into its sequences dict among them) changes what another
\* run reads.
C15_RequestsIsolated == [](SameAsAlone) /\ [][StepsApart]_vars

\* C15's case: two runs handle the same request with a flank; the first has
\* written the flanks into its dict, the second has decoded and validated and
\* still holds the sequences as they were sent.
C15_Witness ==
    /\ DOMAIN reqs = RequestIds
    /\ reqs[1].req = reqs[2].req
    /\ reqs[1].pc = "trim"
    /\ reqs[2].pc = "flank"
    /\ heap[reqs[2].sequences].sequences = reqs[2].req.body.payload.sequences
    /\ heap[reqs[1].sequences].sequences # reqs[1].req.body.payload.sequences

====
